---- MODULE Spec2Model ----
(***************************************************************************)
(* A model of the tracey function tracer (tracey.go).                      *)
(*                                                                         *)
(* Strings are sequences of tokens (each token a short TLA+ string), so    *)
(* that concatenation, formatting and the $FN substitution are computed    *)
(* and two labels are equal exactly when their texts are.                  *)
(*                                                                         *)
(* The package-level variables currentDepth and entryTime are single       *)
(* global records (an RWMutex and a map each); every tracer built by New   *)
(* captures its own options but uses these two globals.                    *)
(***************************************************************************)
EXTENDS Integers, Sequences, FiniteSets, TLC

VARIABLES
    tracers,        \* tracer id -> what New returned: [built, noop, options]
    currentDepth,   \* [isnil, d, w, r]: the depth map and its RWMutex
    entryTime,      \* [isnil, t, w, r]: the timing map and its RWMutex
    sink,           \* per goroutine: the lines it has had the loggers write, in
                    \* order (the log is an interleaving of these sequences)
    now,            \* the last value the wall clock was read at
    pc,             \* per goroutine: the position inside _enter / _exit
    frame,          \* per goroutine: the locals of the call in progress
    open,           \* per goroutine: the enter calls whose exit is not yet called
    lifo,           \* per goroutine: every exit so far closed its own latest enter
    net,            \* per goroutine: enter calls minus exit calls made on it,
                    \* an exit made at 0 leaving 0
    calls,          \* per goroutine: enter calls and unmatched exit calls made so far
    panicked        \* a panic has left the tracer into the traced program

vars == <<tracers, currentDepth, entryTime, sink, now, pc, frame, open, lifo,
          net, calls, panicked>>

----------------------------------------------------------------------------
(* Bounds of the model.                                                    *)

\* Number of enter calls plus unmatched exit calls made in one behaviour, by
\* all goroutines together.
MaxCalls == 3

\* Goroutine ids of the traced program.
Gids == {1, 2}
\* Tracer instances (values returned by distinct calls of New).
TracerIds == {1, 2}

----------------------------------------------------------------------------
(* Go values used by the tracer.                                           *)

\* time.Time{}: the value a map[string]time.Time yields for a missing key.
ZeroTime == 0
\* The wall clock reads Epoch or later; Epoch - ZeroTime exceeds MaxDuration,
\* as the present does for the year 1 of time.Time{}.
Epoch == 1000
\* time.Duration saturates at its largest value (time.Time.Sub).
MaxDuration == 100

\* A Go map read: the zero value for a missing key.
MapGet(m, k, zero) == IF k \in DOMAIN m THEN m[k] ELSE zero
\* A Go map write m[k] = v.
MapPut(m, k, v) == [x \in (DOMAIN m) \cup {k} |-> IF x = k THEN v ELSE m[x]]
\* delete(m, k): no effect when k is missing.
MapDelete(m, k) == [x \in (DOMAIN m) \ {k} |-> m[x]]
\* make(map[..]..): a map with no keys.
EmptyMap == [x \in {} |-> 0]

\* strings.Repeat panics on a negative count.
RepeatPanics(count) == count < 0

\* time.Now(): the wall clock is read at strictly increasing instants; last is
\* the previous reading.
Now(last) == last + 1

\* time.Since(t): now minus t, saturated at the largest Duration.
Since(clock, t) == IF clock - t > MaxDuration THEN MaxDuration ELSE clock - t

\* Values passed to enter: a string (token sequence) or an integer.
StrVal(s) == [type |-> "string", s |-> s, n |-> 0]
IntVal(n) == [type |-> "int", s |-> <<>>, n |-> n]

\* fmt's rendering of one operand under a verb.
FormatArg(verb, a) ==
    IF verb = "%d"
    THEN IF a.type = "int" THEN <<ToString(a.n)>>
         ELSE <<"%!d(string=">> \o a.s \o <<")">>
    ELSE IF a.type = "string" THEN a.s
         ELSE <<"%!s(int=", ToString(a.n), ")">>

RECURSIVE ExtraArgs(_)
\* fmt's report of operands no verb consumed: %!(EXTRA type=value, ...).
ExtraArgs(as) ==
    IF as = <<>> THEN <<>>
    ELSE (IF Head(as).type = "int"
          THEN <<"int=", ToString(Head(as).n)>>
          ELSE <<"string=">> \o Head(as).s)
         \o (IF Tail(as) = <<>> THEN <<>> ELSE <<", ">>)
         \o ExtraArgs(Tail(as))

RECURSIVE Sprintf(_, _)
\* fmt.Sprintf(fmtStr, as...): verbs consume the operands in order.
Sprintf(fmtStr, as) ==
    IF fmtStr = <<>>
    THEN IF as = <<>> THEN <<>> ELSE <<"%!(EXTRA ">> \o ExtraArgs(as) \o <<")">>
    ELSE IF Head(fmtStr) \in {"%d", "%s"}
         THEN IF as = <<>>
              THEN <<"%!", Head(fmtStr), "(MISSING)">> \o Sprintf(Tail(fmtStr), as)
              ELSE FormatArg(Head(fmtStr), Head(as)) \o Sprintf(Tail(fmtStr), Tail(as))
         ELSE <<Head(fmtStr)>> \o Sprintf(Tail(fmtStr), as)

RECURSIVE ReplaceFN(_, _)
\* RE_detectFN.ReplaceAllString(msg, fnName): every $FN becomes fnName.
ReplaceFN(msg, fnName) ==
    IF msg = <<>> THEN <<>>
    ELSE (IF Head(msg) = "$FN" THEN fnName ELSE <<Head(msg)>>)
         \o ReplaceFN(Tail(msg), fnName)

\* Index of the last "/" of a string, 0 when it has none.
LastSlash(s) ==
    IF \E i \in 1..Len(s) : s[i] = "/"
    THEN CHOOSE i \in 1..Len(s) : s[i] = "/" /\ \A j \in (i+1)..Len(s) : s[j] # "/"
    ELSE 0

\* RE_stripFnPreamble.ReplaceAllString(name, "$1"): ^.*\/(.*)$ keeps what
\* follows the last slash; a name without a slash does not match and is kept.
StripFnPreamble(name) ==
    IF LastSlash(name) = 0 THEN name
    ELSE SubSeq(name, LastSlash(name) + 1, Len(name))

\* The stack frame runtime.Caller(2) reports: ok, the function's runtime
\* name, the file and the line.
Frame(ok, name, file, line) == [ok |-> ok, name |-> name, file |-> file, line |-> line]

\* The caller's name as _getname resolves it.
ResolveName(fr) ==
    LET fnName == IF fr.ok THEN StripFnPreamble(fr.name) ELSE <<"<unknown>">>
    IN  IF fnName = <<>> THEN fr.file \o <<ToString(fr.line)>> ELSE fnName

\* strconv.ParseUint of the goroutine field of the stack header; 0 on error.
ParseUint(s) ==
    IF Len(s) = 1 /\ \E n \in Gids : ToString(n) = s[1]
    THEN CHOOSE n \in Gids : ToString(n) = s[1]
    ELSE 0

\* _getGID as it would be if the goroutine field never parsed: ParseUint's
\* error is dropped and 0 returned for every goroutine.
GetGIDFallback(g) == 0

\* The first line of runtime.Stack for goroutine g.
StackHeader(g) == <<"goroutine ", ToString(g), " ", "[running]:">>

\* _getGID: the text between "goroutine " and the next space, parsed.
GetGID(g) ==
    LET b  == StackHeader(g)
        b1 == IF b # <<>> /\ Head(b) = "goroutine " THEN Tail(b) ELSE b
        sp == CHOOSE i \in 1..Len(b1) : b1[i] = " " /\ \A j \in 1..(i-1) : b1[j] # " "
    IN  ParseUint(SubSeq(b1, 1, sp - 1))

\* _getname as it would be if a lone string argument were formatted like a
\* template: the text goes through Sprintf and the $FN substitution into the
\* body.
GetNameLiteralAsTemplate(g, fr, s) ==
    LET fnName == ResolveName(fr)
        traceMessage ==
            IF Len(s) > 0 /\ s[1].type = "string"
            THEN Sprintf(s[1].s, Tail(s)) ELSE <<>>
    IN  <<"[tid:", ToString(GetGID(g)), "]=>">> \o ReplaceFN(traceMessage, fnName)

\* _getname(s...): the label of a call made on goroutine g from frame fr.
GetName(g, fr, s) ==
    LET fnName == ResolveName(fr)
        tid0   == <<"[tid:", ToString(GetGID(g))>>
        isStr  == Len(s) > 0 /\ s[1].type = "string"
        tid    == IF Len(s) = 1 /\ isStr THEN tid0 \o <<" - ">> \o s[1].s ELSE tid0
        traceMessage ==
            IF Len(s) > 1 /\ isStr THEN Sprintf(s[1].s, Tail(s)) ELSE <<>>
    IN  tid \o <<"]=>">> \o ReplaceFN(traceMessage, fnName)

----------------------------------------------------------------------------
(* Options and New.                                                        *)

\* The `default:"..."` struct tags of Options.
DefaultSpacesPerIndent == 2
DefaultEnterMessage == "ENTER: "
DefaultExitMessage == "EXIT:  "
WarningMessage == "Warning: depth became negative in tracey, when attempting to decrement."

\* An Options value; CustomLogger is "nil" or the name of a logger.
Options(disableTracing, customLogger, disableDepthValue, disableNesting, spacesPerIndent, enterMessage, exitMessage, enableInstrumentation) ==
    [DisableTracing |-> disableTracing, CustomLogger |-> customLogger,
     DisableDepthValue |-> disableDepthValue, DisableNesting |-> disableNesting,
     SpacesPerIndent |-> spacesPerIndent, EnterMessage |-> enterMessage,
     ExitMessage |-> exitMessage, EnableInstrumentation |-> enableInstrumentation]

\* The zero Options value, which New(nil) uses.
ZeroOptions == Options(FALSE, "nil", FALSE, FALSE, 0, "", "", FALSE)

\* A tracer slot no New has filled.
NotBuilt == [built |-> FALSE, noop |-> TRUE, options |-> ZeroOptions]

\* The package-level currentDepth / entryTime before any New: a nil map and
\* an unlocked RWMutex (w: the goroutine holding the write lock, 0 for none;
\* r: the goroutines holding a read lock).
NilDepth == [isnil |-> TRUE, d |-> EmptyMap, w |-> 0, r |-> {}]
NilTime == [isnil |-> TRUE, t |-> EmptyMap, w |-> 0, r |-> {}]

\* New(opts) past its DisableTracing test: the defaults are filled in, the
\* depth map is replaced if nesting is enabled and the timing map if
\* instrumentation is, and the _enter closure over these options is returned.
\* It takes neither lock.
NewTracing(opts, cd, et) ==
    LET o1 == [opts EXCEPT
                 !.CustomLogger = IF @ = "nil" THEN "stdout" ELSE @,
                 !.EnterMessage = IF @ = "" THEN DefaultEnterMessage ELSE @,
                 !.ExitMessage = IF @ = "" THEN DefaultExitMessage ELSE @]
        o2 == IF o1.DisableNesting
              THEN [o1 EXCEPT !.SpacesPerIndent = 0]
              ELSE [o1 EXCEPT !.SpacesPerIndent =
                                 IF @ = 0 THEN DefaultSpacesPerIndent ELSE @]
    IN  [tracer |-> [built |-> TRUE, noop |-> FALSE, options |-> o2],
         currentDepth |-> IF o1.DisableNesting THEN cd
                          ELSE [cd EXCEPT !.isnil = FALSE, !.d = EmptyMap],
         entryTime |-> IF o1.EnableInstrumentation
                       THEN [et EXCEPT !.isnil = FALSE, !.t = EmptyMap]
                       ELSE et]

\* New without its early return for DisableTracing.
NewNoEarlyReturn(opts, cd, et) == NewTracing(opts, cd, et)

\* New(opts) run against the package-level maps cd and et: the tracer it
\* returns and the maps it leaves.  With DisableTracing it returns the no-op
\* closures before anything else.
New(opts, cd, et) ==
    IF opts.DisableTracing
    THEN [tracer |-> [built |-> TRUE, noop |-> TRUE, options |-> opts],
          currentDepth |-> cd, entryTime |-> et]
    ELSE NewTracing(opts, cd, et)

----------------------------------------------------------------------------
(* Locals of a call in progress, call records and sink lines.              *)

\* The result of _spacify: the bracketed depth (absent when not shown) and
\* the number of spaces after it.
Indent(depth, spaces) == [depth |-> depth, spaces |-> spaces]
NoIndent == Indent(<<>>, 0)

\* No stack frame: the frame of a call that was never made.
NoFrame == Frame(FALSE, <<>>, <<>>, 0)

\* One enter call: its number among the calls of its goroutine, its goroutine
\* and tracer, the frame it was made from and the arguments it was given, the
\* label enter built, the instant enter stored (ZeroTime when none) and the
\* indent of its ENTER line.
NoCall == [call |-> 0, ctx |-> 0, tr |-> 0, fr |-> NoFrame, s |-> <<>>,
           label |-> <<>>, start |-> ZeroTime, sp |-> NoIndent]

\* The locals of a goroutine that is not inside enter or exit.
\* (nopen and before: the calls open on the goroutine, and its count of
\* enters less exits, when the call was made.)
\* (at and hit: the instant _exit read the clock at, and whether the timing
\* map held an entry under its label then.)
Idle == [tr |-> 0, fname |-> <<>>, sp |-> NoIndent, nopen |-> 0, before |-> 0,
         m |-> NoCall, at |-> 0, hit |-> FALSE, unwinding |-> FALSE]

\* A line as the logger writes it, with the call it belongs to (owner: the
\* goroutine that made the enter call; fr and s: its frame and arguments).
Line(kind, logger, sp, msg, label, c, f) ==
    [kind |-> kind, logger |-> logger, depth |-> sp.depth, spaces |-> sp.spaces,
     msg |-> msg, label |-> label,
     ctx |-> c, call |-> f.m.call, owner |-> f.m.ctx, fr |-> f.m.fr, s |-> f.m.s,
     nopen |-> f.nopen, before |-> f.before,
     at |-> f.at, hit |-> f.hit,
     start |-> f.m.start, tr |-> f.tr]

\* The options of the tracer whose closure goroutine c is running.
Opt(c) == tracers[frame[c].tr].options

\* An RWMutex is free for a writer / for a reader.
CanLock(mu) == mu.w = 0 /\ mu.r = {}
CanRLock(mu) == mu.w = 0

----------------------------------------------------------------------------
(* Call sites of the traced program: the frame runtime.Caller(2) reports   *)
(* and the arguments passed to enter.                                      *)

Site(fr, s) == [fr |-> fr, s |-> s]

\* func main() { defer Trace()() ... } of package main.
SiteMain == Site(Frame(TRUE, <<"main", ".", "main">>, <<"foo.go">>, 42), <<>>)
\* func bar() { defer Trace()() ... }.
SiteBar == Site(Frame(TRUE, <<"main", ".", "bar">>, <<"foo.go">>, 28), <<>>)
\* func foo(i int) { defer Trace("$FN(%d)", i)() ... }.
SiteFoo(i) ==
    Site(Frame(TRUE, <<"main", ".", "foo">>, <<"foo.go">>, 35),
         <<StrVal(<<"$FN", "(", "%d", ")">>), IntVal(i)>>)
\* func() { defer Trace("InnerFunction")() }() inside main.
SiteInner ==
    Site(Frame(TRUE, <<"main", ".", "main", ".", "func1">>, <<"foo.go">>, 136),
         <<StrVal(<<"InnerFunction">>)>>)

\* func bar() { defer Trace(7)() }: the first argument is not a string.
SiteNumber == Site(Frame(TRUE, <<"main", ".", "bar">>, <<"foo.go">>, 28), <<IntVal(7)>>)
\* func foo() { defer Trace("$FN %d")() }: a lone string holding the token
\* and a verb.
SiteTokens ==
    Site(Frame(TRUE, <<"main", ".", "foo">>, <<"foo.go">>, 35),
         <<StrVal(<<"$FN", " ", "%d">>)>>)
\* func Foo() { defer Trace("$FN is awesome %d %s", 3, "four")() } of a
\* package imported by path.
SiteAwesome ==
    Site(Frame(TRUE, <<"github.com", "/", "sujitvp", "/", "pkg", ".", "Foo">>,
               <<"pkg.go">>, 118),
         <<StrVal(<<"$FN", " is awesome ", "%d", " ", "%s">>), IntVal(3),
           StrVal(<<"four">>)>>)
\* A call site whose frame runtime.Caller cannot report, tracing with
\* Trace("%s", "$FN"): the token arrives through an operand.
SiteUnknown ==
    Site(Frame(FALSE, <<>>, <<>>, 0), <<StrVal(<<"%s">>), StrVal(<<"$FN">>)>>)

\* The call sites the traced program of the model has.
Sites == {SiteMain, SiteFoo(1)}

----------------------------------------------------------------------------
(* enter.  A critical section that is one map operation (Lock, the         *)
(* operation, Unlock) is one step, taken when the lock is free; the        *)
(* section of _decrementDepth, which writes, tests and writes again, is    *)
(* two steps with the write lock held in between.                          *)

\* The number of calls made so far by all goroutines.
TotalCalls == calls[1] + calls[2]
\* The traced program may start one more call.
MayCall == TotalCalls < MaxCalls

\* _enter as it would be without its store of the start instant.
AfterLabelNoStore(o) == "e_spacify"

\* The position of _enter once _getname has built the label: the store of the
\* start instant if instrumentation is enabled, else the ENTER line.
AfterLabel(o) == IF o.EnableInstrumentation THEN "e_store" ELSE "e_spacify"

\* Goroutine c calls the enter closure of tracer t from call site site:
\* the no-op closure returns at once; _enter builds its label.
CallEnter(c, t, site) ==
    /\ ~panicked
    /\ pc[c] = "idle"
    /\ tracers[t].built
    /\ calls' = [calls EXCEPT ![c] = @ + 1]
    /\ net' = [net EXCEPT ![c] = @ + 1]
    /\ IF tracers[t].noop
       THEN /\ open' = [open EXCEPT ![c] =
                          Append(@, [NoCall EXCEPT !.call = calls[c] + 1, !.ctx = c,
                                                   !.tr = t])]
            /\ UNCHANGED <<pc, frame>>
       ELSE /\ frame' = [frame EXCEPT ![c] =
                          [Idle EXCEPT
                             !.tr = t,
                             !.fname = GetName(c, site.fr, site.s),
                             !.nopen = Len(open[c]),
                             !.before = net[c],
                             !.m = [NoCall EXCEPT
                                      !.call = calls[c] + 1, !.ctx = c, !.tr = t,
                                      !.fr = site.fr, !.s = site.s,
                                      !.label = GetName(c, site.fr, site.s)]]]
            /\ pc' = [pc EXCEPT ![c] = AfterLabel(tracers[t].options)]
            /\ UNCHANGED open
    /\ UNCHANGED <<tracers, currentDepth, entryTime, sink, now, lifo, panicked>>

\* _enter: entryTime.Lock(); entryTime.t[fname] = time.Now(); entryTime.Unlock().
EnterStore(c) ==
    /\ ~panicked
    /\ pc[c] = "e_store"
    /\ CanLock(entryTime)
    /\ ~entryTime.isnil
    /\ now' = Now(now)
    /\ entryTime' = [entryTime EXCEPT !.t = MapPut(@, frame[c].fname, Now(now))]
    /\ frame' = [frame EXCEPT ![c].m.start = Now(now)]
    /\ pc' = [pc EXCEPT ![c] = "e_spacify"]
    /\ UNCHANGED <<tracers, currentDepth, sink, open, lifo, net, calls, panicked>>

----------------------------------------------------------------------------
(* _spacify, called by _enter and _exit while they build their line.       *)

\* The position that follows position p of the same closure.
Then(p, e, x) == IF p = "e_spacify" THEN e ELSE x

\* The depth _spacify would read inside _enter if _incrementDepth ran before
\* the ENTER line is built and not as the deferred last step.
ReadDepthAfterIncrement(c) ==
    MapGet(currentDepth.d, GetGID(c), 0) + (IF pc[c] = "e_spacify" THEN 1 ELSE 0)

\* The depth _spacify reads for goroutine c.
ReadDepth(c) == MapGet(currentDepth.d, GetGID(c), 0)

\* _spacify as it would be without its test of DisableNesting.
SpacifyIgnoringNesting(o, d) ==
    IF o.DisableDepthValue
    THEN Indent(<<>>, d * o.SpacesPerIndent)
    ELSE Indent(<<d>>, d * o.SpacesPerIndent)

\* The string _spacify returns for depth d under options o.
Spacify(o, d) ==
    IF o.DisableNesting THEN NoIndent
    ELSE IF o.DisableDepthValue
         THEN Indent(<<>>, d * o.SpacesPerIndent)
         ELSE Indent(<<d>>, d * o.SpacesPerIndent)

\* _spacify needs the read lock only when nesting is enabled.
SpacifyCanRun(c) == Opt(c).DisableNesting \/ CanRLock(currentDepth)

\* strings.Repeat(" ", d*SpacesPerIndent) of _spacify panics.
SpacifyPanics(c) ==
    /\ ~Opt(c).DisableNesting
    /\ RepeatPanics(ReadDepth(c) * Opt(c).SpacesPerIndent)

\* _spacify: with nesting enabled RLock(); d := currentDepth.d[gid];
\* RUnlock(); then the indent is rendered.
SpacifyStep(c) ==
    /\ ~panicked
    /\ pc[c] \in {"e_spacify", "x_spacify"}
    /\ SpacifyCanRun(c)
    /\ ~SpacifyPanics(c)
    /\ frame' = [frame EXCEPT ![c].sp = Spacify(Opt(c), ReadDepth(c))]
    /\ pc' = [pc EXCEPT ![c] = Then(pc[c], "e_print", "x_print")]
    /\ UNCHANGED <<tracers, currentDepth, entryTime, sink, now, open, lifo, net,
                   calls, panicked>>

\* _spacify: strings.Repeat panics on a negative count, after RUnlock().
\* Inside _enter the deferred _incrementDepth still runs before the panic
\* reaches the caller; inside _exit the panic reaches the caller at once.
SpacifyPanic(c) ==
    /\ ~panicked
    /\ pc[c] \in {"e_spacify", "x_spacify"}
    /\ SpacifyCanRun(c)
    /\ SpacifyPanics(c)
    /\ frame' = [frame EXCEPT ![c].unwinding = TRUE]
    /\ pc' = [pc EXCEPT ![c] = Then(pc[c], "e_inc", "panic")]
    /\ panicked' = (pc[c] = "x_spacify")
    /\ UNCHANGED <<tracers, currentDepth, entryTime, sink, now, open, lifo, net,
                   calls>>

----------------------------------------------------------------------------
(* enter, continued: the ENTER line and the deferred increment.            *)

\* _enter: options.CustomLogger.Printf("%s%s%s\n", _spacify(), EnterMessage, fname),
\* then return _exit; the deferred _incrementDepth runs if nesting is enabled.
EnterPrint(c) ==
    /\ ~panicked
    /\ pc[c] = "e_print"
    /\ sink' = [sink EXCEPT ![c] = Append(@, Line("ENTER", Opt(c).CustomLogger, frame[c].sp,
                                 Opt(c).EnterMessage, frame[c].fname, c, frame[c]))]
    /\ IF Opt(c).DisableNesting
       THEN /\ open' = [open EXCEPT ![c] =
                          Append(@, [frame[c].m EXCEPT !.sp = frame[c].sp])]
            /\ frame' = [frame EXCEPT ![c] = Idle]
            /\ pc' = [pc EXCEPT ![c] = "idle"]
       ELSE /\ frame' = [frame EXCEPT ![c].m.sp = frame[c].sp]
            /\ pc' = [pc EXCEPT ![c] = "e_inc"]
            /\ UNCHANGED open
    /\ UNCHANGED <<tracers, currentDepth, entryTime, now, lifo, net, calls, panicked>>

\* The increment as a store of 1 in place of a read-modify-write.
IncrementDepthLost(d, gid) == MapPut(d, gid, 1)

\* currentDepth.d[_getGID()]++.
IncrementDepth(d, gid) == MapPut(d, gid, MapGet(d, gid, 0) + 1)

\* _incrementDepth: Lock(); the increment; Unlock().  Then enter returns
\* _exit to its caller, or the pending panic goes on to the caller.
IncDepth(c) ==
    /\ ~panicked
    /\ pc[c] = "e_inc"
    /\ CanLock(currentDepth)
    /\ ~currentDepth.isnil
    /\ currentDepth' = [currentDepth EXCEPT !.d = IncrementDepth(@, GetGID(c))]
    /\ IF frame[c].unwinding
       THEN /\ panicked' = TRUE
            /\ pc' = [pc EXCEPT ![c] = "panic"]
            /\ UNCHANGED <<frame, open>>
       ELSE /\ open' = [open EXCEPT ![c] = Append(@, frame[c].m)]
            /\ frame' = [frame EXCEPT ![c] = Idle]
            /\ pc' = [pc EXCEPT ![c] = "idle"]
            /\ UNCHANGED panicked
    /\ UNCHANGED <<tracers, entryTime, sink, now, lifo, net, calls>>

----------------------------------------------------------------------------
(* exit.                                                                   *)

\* The frames runtime.Caller(2) can report to _getname inside _exit.
ExitFrames == {site.fr : site \in Sites}

\* The position of _exit once _decrementDepth has returned and the label is
\* rebuilt by _getname().
AfterDecrement(o) == IF o.EnableInstrumentation THEN "x_since" ELSE "x_spacify"

\* Goroutine c starts running the exit closure of tracer t, which closes the
\* enter call m (NoCall for an exit with no open call): pc and frame after
\* the call begins.  With nesting disabled _decrementDepth does nothing.
BeginExit(c, t, m, fr) ==
    IF tracers[t].noop
    THEN UNCHANGED <<pc, frame>>
    ELSE /\ frame' = [frame EXCEPT ![c] =
                        [Idle EXCEPT
                           !.tr = t, !.m = m, !.nopen = Len(open[c]),
                           !.before = net[c],
                           !.fname = IF tracers[t].options.DisableNesting
                                     THEN GetName(c, fr, <<>>) ELSE <<>>]]
         /\ pc' = [pc EXCEPT ![c] =
                     IF tracers[t].options.DisableNesting
                     THEN AfterDecrement(tracers[t].options) ELSE "x_dec"]

\* The count of calls made on a goroutine after an exit call is made on it.
NetAfterExit(n) == IF n > 0 THEN n - 1 ELSE 0

\* Goroutine c calls the exit its latest unclosed enter returned.
CallExit(c) ==
    /\ ~panicked
    /\ pc[c] = "idle"
    /\ open[c] # <<>>
    /\ open' = [open EXCEPT ![c] = SubSeq(@, 1, Len(@) - 1)]
    /\ net' = [net EXCEPT ![c] = NetAfterExit(@)]
    /\ \E fr \in ExitFrames :
         BeginExit(c, open[c][Len(open[c])].tr, open[c][Len(open[c])], fr)
    /\ UNCHANGED <<tracers, currentDepth, entryTime, sink, now, lifo, calls,
                   panicked>>

\* Goroutine c calls the exit that the latest unclosed enter of another
\* goroutine o returned.
CallExitForeign(c, o) ==
    /\ ~panicked
    /\ pc[c] = "idle"
    /\ o # c
    /\ open[o] # <<>>
    /\ open' = [open EXCEPT ![o] = SubSeq(@, 1, Len(@) - 1)]
    /\ net' = [net EXCEPT ![c] = NetAfterExit(@)]
    /\ lifo' = [lifo EXCEPT ![c] = FALSE, ![o] = FALSE]
    /\ \E fr \in ExitFrames :
         BeginExit(c, open[o][Len(open[o])].tr, open[o][Len(open[o])], fr)
    /\ UNCHANGED <<tracers, currentDepth, entryTime, sink, now, calls, panicked>>

\* Goroutine c calls an exit of tracer t that matches no unclosed enter (an
\* exit called a second time).
CallExitStray(c, t) ==
    /\ ~panicked
    /\ pc[c] = "idle"
    /\ tracers[t].built
    /\ calls' = [calls EXCEPT ![c] = @ + 1]
    /\ net' = [net EXCEPT ![c] = NetAfterExit(@)]
    /\ lifo' = [lifo EXCEPT ![c] = FALSE]
    /\ \E fr \in ExitFrames :
         BeginExit(c, t, [NoCall EXCEPT !.tr = t], fr)
    /\ UNCHANGED <<tracers, currentDepth, entryTime, sink, now, open, panicked>>

\* The decrement applied to the goroutine that made the enter call being
\* closed, as if _exit had captured the id of its enter.
DecrementDepthOfOwner(d, gid) ==
    LET owner == IF frame[gid].m.ctx # 0 THEN GetGID(frame[gid].m.ctx) ELSE gid
    IN  MapPut(d, owner, MapGet(d, owner, 0) - 1)

\* The decrement left out.
DecrementDepthSkipped(d, gid) == d

\* currentDepth.d[gid]--.
DecrementDepth(d, gid) == MapPut(d, gid, MapGet(d, gid, 0) - 1)

\* _decrementDepth: gid := _getGID(); currentDepth.Lock(); the decrement.
DecDepth(c) ==
    /\ ~panicked
    /\ pc[c] = "x_dec"
    /\ CanLock(currentDepth)
    /\ ~currentDepth.isnil
    /\ currentDepth' = [currentDepth EXCEPT
                          !.d = DecrementDepth(@, GetGID(c)), !.w = c]
    /\ pc' = [pc EXCEPT ![c] = "x_chk"]
    /\ UNCHANGED <<tracers, entryTime, sink, now, frame, open, lifo, net, calls,
                   panicked>>

\* _decrementDepth returning with the write lock still held.
UnlockForgotten(mu) == mu

\* mu.Unlock(): the write lock is released.
Unlock(mu) == [mu EXCEPT !.w = 0]

\* The test with its bound off by one.
WentNegativeOffByOne(d, gid) == MapGet(d, gid, 0) < -1

\* The test of _decrementDepth for a depth gone negative.
WentNegative(d, gid) == MapGet(d, gid, 0) < 0

\* _decrementDepth: if the depth went negative, the warning is logged and the
\* depth reset to 0; Unlock().  Then _exit rebuilds its label: _getname().
DecCheck(c) ==
    /\ ~panicked
    /\ pc[c] = "x_chk"
    /\ IF WentNegative(currentDepth.d, GetGID(c))
       THEN /\ sink' = [sink EXCEPT ![c] = Append(@, Line("WARN", Opt(c).CustomLogger, NoIndent,
                                         WarningMessage, <<>>, c, frame[c]))]
            /\ currentDepth' = Unlock([currentDepth EXCEPT
                                          !.d = MapPut(@, GetGID(c), 0)])
       ELSE /\ currentDepth' = Unlock(currentDepth)
            /\ UNCHANGED sink
    /\ \E fr \in ExitFrames :
         frame' = [frame EXCEPT ![c].fname = GetName(c, fr, <<>>)]
    /\ pc' = [pc EXCEPT ![c] = AfterDecrement(Opt(c))]
    /\ UNCHANGED <<tracers, entryTime, now, open, lifo, net, calls, panicked>>

\* The text _exit appends to its label: the time since the instant stored
\* under the label, the zero instant when the map has none.
Elapsed(clock, t, fname) ==
    <<" ... in ", ToString(Since(clock, MapGet(t, fname, ZeroTime)))>>

\* _exit: entryTime.RLock();
\* fname = fname + " ... in " + time.Since(entryTime.t[fname]).String();
\* entryTime.RUnlock().
ExitSince(c) ==
    /\ ~panicked
    /\ pc[c] = "x_since"
    /\ CanRLock(entryTime)
    /\ now' = Now(now)
    /\ frame' = [frame EXCEPT
                   ![c].fname = @ \o Elapsed(Now(now), entryTime.t, @),
                   ![c].at = Now(now),
                   ![c].hit = (frame[c].fname \in DOMAIN entryTime.t)]
    /\ pc' = [pc EXCEPT ![c] = "x_spacify"]
    /\ UNCHANGED <<tracers, currentDepth, entryTime, sink, open, lifo, net, calls,
                   panicked>>

\* _exit: options.CustomLogger.Printf("%s%s%s\n", _spacify(), ExitMessage, fname).
ExitPrint(c) ==
    /\ ~panicked
    /\ pc[c] = "x_print"
    /\ sink' = [sink EXCEPT ![c] = Append(@, Line("EXIT", Opt(c).CustomLogger, frame[c].sp,
                                 Opt(c).ExitMessage, frame[c].fname, c, frame[c]))]
    /\ IF Opt(c).EnableInstrumentation
       THEN /\ pc' = [pc EXCEPT ![c] = "x_delete"]
            /\ UNCHANGED frame
       ELSE /\ pc' = [pc EXCEPT ![c] = "idle"]
            /\ frame' = [frame EXCEPT ![c] = Idle]
    /\ UNCHANGED <<tracers, currentDepth, entryTime, now, open, lifo, net, calls,
                   panicked>>

\* The key _exit passes to delete: fname as it stands after the elapsed time
\* was appended to it.
DeleteKey(f) == f.fname

\* _exit: entryTime.Lock(); delete(entryTime.t, fname); entryTime.Unlock();
\* _exit returns.
ExitDelete(c) ==
    /\ ~panicked
    /\ pc[c] = "x_delete"
    /\ CanLock(entryTime)
    /\ entryTime' = [entryTime EXCEPT !.t = MapDelete(@, DeleteKey(frame[c]))]
    /\ frame' = [frame EXCEPT ![c] = Idle]
    /\ pc' = [pc EXCEPT ![c] = "idle"]
    /\ UNCHANGED <<tracers, currentDepth, sink, now, open, lifo, net, calls, panicked>>

----------------------------------------------------------------------------
(* The traced program and its tracers.                                     *)

\* Options values a program passes to New (CustomLogger, EnterMessage and
\* ExitMessage set or left to their defaults).
OptionChoices ==
    { ZeroOptions,
      Options(FALSE, "nil", FALSE, FALSE, 0, "", "", TRUE),
      Options(TRUE, "nil", FALSE, FALSE, 0, "", "", TRUE) }

\* The state once the program has built tracer 1 with New(opts).
InitWith(opts) ==
    /\ tracers = [t \in TracerIds |->
                    IF t = 1 THEN New(opts, NilDepth, NilTime).tracer ELSE NotBuilt]
    /\ currentDepth = New(opts, NilDepth, NilTime).currentDepth
    /\ entryTime = New(opts, NilDepth, NilTime).entryTime
    /\ sink = [c \in Gids |-> <<>>]
    /\ now = Epoch
    /\ pc = [c \in Gids |-> "idle"]
    /\ frame = [c \in Gids |-> Idle]
    /\ open = [c \in Gids |-> <<>>]
    /\ lifo = [c \in Gids |-> TRUE]
    /\ net = [c \in Gids |-> 0]
    /\ calls = [c \in Gids |-> 0]
    /\ panicked = FALSE

Init == \E opts \in OptionChoices : InitWith(opts)

\* A step of goroutine c inside a closure of a tracer.
Step(c) ==
    \/ EnterStore(c)
    \/ SpacifyStep(c)
    \/ EnterPrint(c)
    \/ IncDepth(c)
    \/ DecDepth(c)
    \/ DecCheck(c)
    \/ ExitSince(c)
    \/ ExitPrint(c)
    \/ ExitDelete(c)

\* One tracer, built before any goroutine traces; any goroutine calls enter
\* and exit in any order.
Next ==
    \/ \E c \in Gids, site \in Sites : MayCall /\ CallEnter(c, 1, site)
    \/ \E c \in Gids : CallExit(c)
    \/ \E c \in Gids : MayCall /\ CallExitStray(c, 1)
    \/ \E c \in Gids : Step(c)

Spec == Init /\ [][Next]_vars

\* Instrumented tracers, called from every kind of call site: no arguments,
\* a format template, a single literal.
TimingOptions ==
    { Options(FALSE, "nil", FALSE, FALSE, 0, "", "", TRUE),
      Options(FALSE, "buf", TRUE, TRUE, 3, "IN ", "OUT ", TRUE) }

TimingSites == Sites \cup {SiteInner}

InitTiming == \E opts \in TimingOptions : InitWith(opts)

NextTiming ==
    \/ \E c \in Gids, site \in TimingSites : MayCall /\ CallEnter(c, 1, site)
    \/ \E c \in Gids : CallExit(c)
    \/ \E c \in Gids : MayCall /\ CallExitStray(c, 1)
    \/ \E c \in Gids : Step(c)

SpecTiming == InitTiming /\ [][NextTiming]_vars

\* A program with call sites of every form, each goroutine running its own
\* functions; every exit closes the latest open enter of its goroutine.  The
\* goroutines of this program hand over to each other between their calls of
\* enter and exit, never inside one (a label is built from the goroutine, the
\* frame and the arguments alone).
NamingSites(c) ==
    IF c = 1 THEN {SiteMain, SiteFoo(2), SiteInner, SiteNumber}
    ELSE {SiteTokens, SiteAwesome, SiteUnknown}

NamingOptions ==
    { ZeroOptions, Options(FALSE, "buf", TRUE, FALSE, 1, "IN ", "OUT ", TRUE) }

InitNaming == \E opts \in NamingOptions : InitWith(opts)

\* No goroutine is inside enter or exit.
AllIdle == \A c \in Gids : pc[c] = "idle"

NextNaming ==
    \/ \E c \in Gids : \E site \in NamingSites(c) :
         MayCall /\ AllIdle /\ CallEnter(c, 1, site)
    \/ \E c \in Gids : AllIdle /\ CallExit(c)
    \/ \E c \in Gids : Step(c)

SpecNaming == InitNaming /\ [][NextNaming]_vars

\* The program calls New a second time, at any moment, and traces with both
\* tracers.
NewCall(t, opts) ==
    /\ ~panicked
    /\ ~tracers[t].built
    /\ tracers' = [tracers EXCEPT ![t] = New(opts, currentDepth, entryTime).tracer]
    /\ currentDepth' = New(opts, currentDepth, entryTime).currentDepth
    /\ entryTime' = New(opts, currentDepth, entryTime).entryTime
    /\ UNCHANGED <<sink, now, pc, frame, open, lifo, net, calls, panicked>>

InitMulti ==
    \E opts \in {ZeroOptions, Options(FALSE, "nil", FALSE, FALSE, 0, "", "", TRUE)} :
        InitWith(opts)

NextMulti ==
    \/ \E opts \in OptionChoices : NewCall(2, opts)
    \/ \E c \in Gids, t \in TracerIds : MayCall /\ CallEnter(c, t, SiteMain)
    \/ \E c \in Gids : CallExit(c)
    \/ \E c \in Gids, t \in TracerIds : MayCall /\ CallExitStray(c, t)
    \/ \E c \in Gids : Step(c)

SpecMulti == InitMulti /\ [][NextMulti]_vars

\* Options with DisableNesting set: the depth value asked for or not, spaces
\* asked for or not, instrumentation on or off.
FlatOptions ==
    { Options(FALSE, "nil", FALSE, TRUE, 3, "", "", FALSE),
      Options(FALSE, "buf", TRUE, TRUE, 0, "IN ", "OUT ", TRUE) }

\* The program traces with New(nil) or with a tracer built with
\* DisableNesting and, from some moment on, also with a second tracer built
\* with DisableNesting.
InitFlat ==
    \E opts \in {ZeroOptions, Options(FALSE, "nil", FALSE, TRUE, 3, "", "", FALSE)} :
        InitWith(opts)

NextFlat ==
    \/ \E opts \in FlatOptions : NewCall(2, opts)
    \/ \E c \in Gids, t \in TracerIds : MayCall /\ CallEnter(c, t, SiteMain)
    \/ \E c \in Gids : CallExit(c)
    \/ \E c \in Gids : MayCall /\ CallExitStray(c, 2)
    \/ \E c \in Gids : Step(c)

SpecFlat == InitFlat /\ [][NextFlat]_vars

\* A program that passes the exit functions it gets between its goroutines:
\* a goroutine calls the exit of its own latest open enter or that of the
\* other goroutine's.
ForeignOptions ==
    { ZeroOptions, Options(FALSE, "buf", TRUE, FALSE, 1, "IN ", "OUT ", FALSE) }

\* A step of goroutine c inside a closure of a tracer built without
\* instrumentation.
StepUntimed(c) ==
    \/ SpacifyStep(c)
    \/ EnterPrint(c)
    \/ IncDepth(c)
    \/ DecDepth(c)
    \/ DecCheck(c)
    \/ ExitPrint(c)

InitForeign == \E opts \in ForeignOptions : InitWith(opts)

NextForeign ==
    \/ \E c \in Gids : MayCall /\ CallEnter(c, 1, SiteMain)
    \/ \E c \in Gids : CallExit(c)
    \/ \E c \in Gids, o \in Gids : CallExitForeign(c, o)
    \/ \E c \in Gids : StepUntimed(c)

SpecForeign == InitForeign /\ [][NextForeign]_vars

\* A tracer with nesting and instrumentation enabled, its calls scheduled
\* fairly: a goroutine inside enter or exit whose next step can be taken
\* (the lock it needs being free) takes it in the end.
InitLive == InitWith(Options(FALSE, "nil", FALSE, FALSE, 0, "", "", TRUE))

NextLive ==
    \/ \E c \in Gids : MayCall /\ CallEnter(c, 1, SiteMain)
    \/ \E c \in Gids : CallExit(c)
    \/ \E c \in Gids : MayCall /\ CallExitStray(c, 1)
    \/ \E c \in Gids : Step(c)

Fairness == \A c \in Gids : WF_vars(Step(c))

SpecLive == InitLive /\ [][NextLive]_vars /\ Fairness

\* The program of the README: main calls bar, bar calls foo(2), foo(2) calls
\* foo(1) and foo(1) calls foo(0); each traces itself with
\* defer Trace(...)(), all on goroutine 1.
Script == <<SiteMain, SiteBar, SiteFoo(2), SiteFoo(1), SiteFoo(0)>>

\* Tracers that print the depth value; New(nil) is the README's.
ScenarioOptions ==
    { ZeroOptions,
      Options(FALSE, "nil", FALSE, FALSE, 0, "", "", TRUE),
      Options(FALSE, "buf", FALSE, FALSE, 1, "IN ", "OUT ", FALSE) }

InitScenario == \E opts \in ScenarioOptions : InitWith(opts)

\* The next function of the script is entered: it calls enter first.
ScenarioEnter ==
    /\ calls[1] < Len(Script)
    /\ CallEnter(1, 1, Script[calls[1] + 1])

\* The innermost function returns: its deferred exit runs.
ScenarioExit ==
    /\ calls[1] = Len(Script)
    /\ CallExit(1)

NextScenario ==
    \/ ScenarioEnter
    \/ ScenarioExit
    \/ Step(1)

SpecScenario == InitScenario /\ [][NextScenario]_vars

\* Options values of the Go type Options, SpacesPerIndent being an int.
AnyOptionChoices ==
    OptionChoices \cup
    { Options(FALSE, "nil", FALSE, FALSE, -1, "", "", FALSE),
      Options(FALSE, "nil", TRUE, FALSE, -2, "", "", TRUE) }

InitAnyOptions == \E opts \in AnyOptionChoices : InitWith(opts)

NextAnyOptions ==
    \/ \E c \in Gids, site \in Sites : MayCall /\ CallEnter(c, 1, site)
    \/ \E c \in Gids : CallExit(c)
    \/ \E c \in Gids : MayCall /\ CallExitStray(c, 1)
    \/ \E c \in Gids : Step(c)
    \/ \E c \in Gids : SpacifyPanic(c)

SpecAnyOptions == InitAnyOptions /\ [][NextAnyOptions]_vars

----------------------------------------------------------------------------
(* Properties of the depth tracker.                                        *)

\* The depth stored in the depth map under goroutine id g.
StoredDepth(g) == MapGet(currentDepth.d, g, 0)

\* Tracer 1 traces with nesting enabled.
Nesting == ~tracers[1].noop /\ ~tracers[1].options.DisableNesting

\* The indent a line carries when its depth is d, under the options of tracer 1.
IndentFor(d) ==
    Indent(IF tracers[1].options.DisableDepthValue THEN <<>> ELSE <<d>>,
           d * tracers[1].options.SpacesPerIndent)

\* C1: with nesting enabled, on a goroutine whose exits have all closed its
\* own latest open enter, the stored depth between calls is the number of its
\* enter calls not yet exited, and every ENTER line it wrote carries the
\* number of calls that were open on it when that enter was called.
C1_DepthIsOpenCount ==
    \A c \in Gids :
        (Nesting /\ lifo[c]) =>
            /\ pc[c] = "idle" => StoredDepth(c) = Len(open[c])
            /\ \A i \in 1..Len(sink[c]) :
                   sink[c][i].kind = "ENTER" =>
                       Indent(sink[c][i].depth, sink[c][i].spaces)
                           = IndentFor(sink[c][i].nopen)

\* A goroutine has two calls open after closing a third, all properly nested.
C1_Witness ==
    /\ Nesting /\ lifo[1] /\ pc[1] = "idle"
    /\ Len(open[1]) = 2 /\ StoredDepth(1) = 2
    /\ \E i \in 1..Len(sink[1]) : sink[1][i].kind = "EXIT"
    /\ \E i \in 1..Len(sink[1]) : sink[1][i].kind = "ENTER" /\ sink[1][i].depth = <<1>>

\* A step in which goroutine a neither makes a call nor moves inside one.
Still(a) ==
    /\ pc'[a] = pc[a] /\ frame'[a] = frame[a] /\ open'[a] = open[a]
    /\ net'[a] = net[a] /\ calls'[a] = calls[a]

\* The depth entry of goroutine a is the same before and after the step.
SameEntry(a) ==
    /\ (a \in DOMAIN currentDepth'.d) = (a \in DOMAIN currentDepth.d)
    /\ MapGet(currentDepth'.d, a, 0) = MapGet(currentDepth.d, a, 0)

\* Between its calls the stored depth of every goroutine is its own count of
\* enters less exits (an exit at 0 leaving 0).
OwnCount == \A a \in Gids : (Nesting /\ pc[a] = "idle") => StoredDepth(a) = net[a]

\* C2: under every interleaving, a step of another goroutine never changes
\* the depth entry of goroutine a, and between its calls the entry of a is
\* the count of a's own enter and exit calls: none of them is lost.
C2_Isolation == [] OwnCount /\ [][\A a \in Gids : Still(a) => SameEntry(a)]_vars

\* Both goroutines have traced, concurrently, and hold different depths.
C2_Witness ==
    /\ Nesting /\ pc[1] = "idle" /\ pc[2] \in {"e_inc", "x_dec", "x_chk"}
    /\ StoredDepth(1) = 2 /\ net[2] = 1

\* The line before line i of goroutine c is its underflow warning.
WarnedBefore(c, i) == i > 1 /\ sink[c][i - 1].kind = "WARN"

\* Goroutine c is inside an exit, past _decrementDepth.
PastDecrement(c) == pc[c] \in {"x_since", "x_spacify", "x_print", "x_delete"}

\* C3: with nesting enabled, an exit made on a goroutine whose depth is 0 or
\* absent leaves its stored depth 0, writes exactly one warning line and then
\* its EXIT line (an exit made at a positive depth writes no warning), and
\* no stored depth is negative whenever the depth map can be read, so that no
\* line and no read carries a negative depth.
C3_UnderflowClamped ==
    Nesting =>
        /\ currentDepth.w = 0 => \A g \in DOMAIN currentDepth.d : currentDepth.d[g] >= 0
        /\ \A c \in Gids :
            /\ frame[c].sp.spaces >= 0 /\ frame[c].sp.depth \in {<<>>} \cup {<<d>> : d \in 0..MaxCalls}
            /\ (PastDecrement(c) /\ frame[c].before = 0) =>
                   /\ StoredDepth(c) = 0
                   /\ sink[c] # <<>>
                   /\ pc[c] \in {"x_since", "x_spacify", "x_print"} =>
                          sink[c][Len(sink[c])].kind = "WARN"
            /\ \A i \in 1..Len(sink[c]) :
                   /\ sink[c][i].depth \in {<<>>} \cup {<<d>> : d \in 0..MaxCalls}
                   /\ sink[c][i].spaces >= 0
                   /\ sink[c][i].kind = "WARN" =>
                          /\ ~WarnedBefore(c, i)
                          /\ IF i < Len(sink[c])
                             THEN sink[c][i + 1].kind = "EXIT" /\ sink[c][i + 1].before = 0
                             ELSE pc[c] \in {"x_since", "x_spacify", "x_print"}
                                  /\ frame[c].before = 0
                   /\ sink[c][i].kind = "EXIT" =>
                          /\ WarnedBefore(c, i) = (sink[c][i].before = 0)
                          /\ sink[c][i].before = 0 =>
                                 Indent(sink[c][i].depth, sink[c][i].spaces) = IndentFor(0)

\* An exit was made at depth 0 while the other goroutine had a call open: the
\* warning and the EXIT line are written and the depth stored is 0.
C3_Witness ==
    /\ Nesting /\ pc[1] = "idle" /\ StoredDepth(1) = 0 /\ 1 \in DOMAIN currentDepth.d
    /\ StoredDepth(2) = 1
    /\ Len(sink[1]) = 2
    /\ sink[1][1].kind = "WARN" /\ sink[1][2].kind = "EXIT"

\* C7: a tracer built with DisableTracing writes nothing to the sink and
\* leaves the depth map and the timing map as New found them, whatever calls
\* of enter and exit are made on it.
C7_DisabledIsNoOp ==
    tracers[1].options.DisableTracing =>
        /\ \A c \in Gids : sink[c] = <<>>
        /\ currentDepth = NilDepth
        /\ entryTime = NilTime

\* On a disabled tracer both goroutines have called enter, one has called the
\* exit it got and one an exit that matches no open call.
C7_Witness ==
    /\ tracers[1].options.DisableTracing
    /\ calls[1] >= 1 /\ calls[2] >= 1
    /\ ~lifo[2] /\ open[1] = <<>> /\ net[1] = 0

----------------------------------------------------------------------------
(* Properties of the timing table.                                         *)

\* Tracer 1 traces with instrumentation enabled.
Instrumented == ~tracers[1].noop /\ tracers[1].options.EnableInstrumentation

\* Every enter made so far has been matched by its exit, and no other exit
\* was made.
AllMatched ==
    \A c \in Gids : pc[c] = "idle" /\ open[c] = <<>> /\ lifo[c]

\* C4: with instrumentation enabled, once every enter has been matched by
\* its exit the timing map is empty: no entry outlives its exit.
C4_TimingMapEmptied == (Instrumented /\ AllMatched) => entryTime.t = EmptyMap

\* The elapsed time an EXIT line reports: the text after " ... in ", or the
\* empty string when the line has no such suffix.
ReportedElapsed(line) ==
    IF Len(line.label) >= 2 /\ line.label[Len(line.label) - 1] = " ... in "
    THEN line.label[Len(line.label)]
    ELSE ""

\* C5: with instrumentation enabled, the elapsed time on the EXIT line of a
\* call is measured from the instant the enter of that same call stored,
\* whatever arguments enter was called with and whatever calls were made in
\* between.
C5_ElapsedFromMatchingEnter ==
    Instrumented =>
        \A c \in Gids : \A i \in 1..Len(sink[c]) :
            (sink[c][i].kind = "EXIT" /\ sink[c][i].call # 0) =>
                ReportedElapsed(sink[c][i])
                    = ToString(sink[c][i].at - sink[c][i].start)

\* C6: with instrumentation enabled, an exit that finds no start instant
\* under its label reports no elapsed time or a zero one.
C6_MissReportsZero ==
    Instrumented =>
        \A c \in Gids : \A i \in 1..Len(sink[c]) :
            (sink[c][i].kind = "EXIT" /\ ~sink[c][i].hit) =>
                ReportedElapsed(sink[c][i]) \in {"", ToString(0)}

----------------------------------------------------------------------------
(* Properties of tracer instances, of the README scenario and of failures. *)

\* The step is New building tracer t, or a goroutine making or continuing a
\* call of a closure of tracer t.
TracerStep(t) ==
    \/ tracers'[t] # tracers[t]
    \/ \E c \in Gids :
         /\ pc'[c] # pc[c]
         /\ frame[c].tr = t \/ frame'[c].tr = t

\* C8: when tracer 1 traces, neither New building tracer 2 nor any enter or
\* exit call on tracer 2 changes the depths or the timing entries that the
\* calls on tracer 1 read.
C8_TracersIsolated ==
    [][(~tracers[1].noop /\ TracerStep(2)) =>
          (currentDepth'.d = currentDepth.d /\ entryTime'.t = entryTime.t)]_vars

\* The script has run to its end.
ScenarioDone == calls[1] = Len(Script) /\ open[1] = <<>> /\ pc[1] = "idle"

\* The depth values of the lines goroutine c wrote, in order.
Depths(c) == [i \in 1..Len(sink[c]) |-> sink[c][i].depth[1]]

\* The kinds (ENTER, EXIT, WARN) of the lines goroutine c wrote, in order.
Kinds(c) == [i \in 1..Len(sink[c]) |-> sink[c][i].kind]

\* C9 as claimed: the scenario writes 8 lines with depths 0,1,2,3,3,2,1,0.
C9_EightLines ==
    ScenarioDone =>
        /\ Len(sink[1]) = 8
        /\ Depths(1) = <<0, 1, 2, 3, 3, 2, 1, 0>>

\* C9, amended: the five traced functions write 10 lines, with depths
\* 0,1,2,3,4,4,3,2,1,0: five ENTER lines then five EXIT lines, each EXIT
\* line closing the most recent unclosed ENTER.
C9_TenLines ==
    ScenarioDone =>
        /\ Len(sink[1]) = 10
        /\ Depths(1) = <<0, 1, 2, 3, 4, 4, 3, 2, 1, 0>>
        /\ Kinds(1) = <<"ENTER", "ENTER", "ENTER", "ENTER", "ENTER",
                        "EXIT", "EXIT", "EXIT", "EXIT", "EXIT">>
        /\ \A i \in 1..5 : sink[1][11 - i].call = sink[1][i].call

\* The scenario has run to its end under New(nil).
C9_Witness == ScenarioDone /\ tracers[1].options.ExitMessage = DefaultExitMessage

\* C10: no call of New, enter or exit panics into the traced program.
C10_NeverPanics == ~panicked /\ \A c \in Gids : pc[c] # "panic"

\* No map is written while it is nil (a write to a nil map panics).
NoNilMapWrite ==
    \A c \in Gids :
        /\ pc[c] = "e_store" => ~entryTime.isnil
        /\ pc[c] \in {"e_inc", "x_dec"} => ~currentDepth.isnil

----------------------------------------------------------------------------
(* Properties of the labels.                                               *)

\* Index of the first "." of a name, 0 when it has none.
FirstDot(n) ==
    IF \E i \in 1..Len(n) : n[i] = "."
    THEN CHOOSE i \in 1..Len(n) : n[i] = "." /\ \A j \in 1..(i-1) : n[j] # "."
    ELSE 0

\* The name a function is declared under: its runtime name less the import
\* path and the package qualifier ("foo" for main.foo); "<unknown>" for a
\* frame that cannot be reported.
DeclaredName(fr) ==
    IF ~fr.ok THEN <<"<unknown>">>
    ELSE SubSeq(StripFnPreamble(fr.name), FirstDot(StripFnPreamble(fr.name)) + 1,
                Len(StripFnPreamble(fr.name)))

\* Text t occurs in text l.
Contains(l, t) == \E i \in 1..(Len(l) - Len(t) + 1) : SubSeq(l, i, i + Len(t) - 1) = t

\* The ENTER lines written so far.
EnterLines ==
    {l \in UNION {{sink[c][i] : i \in 1..Len(sink[c])} : c \in Gids} : l.kind = "ENTER"}

\* The context tag of goroutine g that opens every label.
Tid(g) == <<"[tid:", ToString(g)>>

\* C11: an ENTER line of an enter called with no arguments, or with a first
\* argument that is not a string, carries the name of the calling function.
C11_LogsFunctionName ==
    \A l \in EnterLines :
        (l.s = <<>> \/ l.s[1].type # "string") => Contains(l.label, DeclaredName(l.fr))

\* C12: an ENTER line of an enter called with a template and further
\* arguments carries "[tid:<id>]=>" and then the template formatted against
\* the arguments, every $FN replaced by the name of the calling function
\* (foo(2) for enter("$FN(%d)", 2) inside foo).
C12_TemplateBody ==
    \A l \in EnterLines :
        (Len(l.s) > 1 /\ l.s[1].type = "string") =>
            l.label = Tid(l.ctx) \o <<"]=>">>
                        \o ReplaceFN(Sprintf(l.s[1].s, Tail(l.s)), DeclaredName(l.fr))

\* The same with the name as _getname resolves it, package qualifier kept.
TemplateBodyRuntimeName ==
    \A l \in EnterLines :
        (Len(l.s) > 1 /\ l.s[1].type = "string") =>
            l.label = Tid(l.ctx) \o <<"]=>">>
                        \o ReplaceFN(Sprintf(l.s[1].s, Tail(l.s)), ResolveName(l.fr))

\* C13: an ENTER line of an enter called with one argument, a string,
\* carries "[tid:<id> - <the string>]=>" and nothing after it: the string is
\* neither formatted nor searched for $FN, and the function name is not used.
C13_LiteralSuffix ==
    \A l \in EnterLines :
        (Len(l.s) = 1 /\ l.s[1].type = "string") =>
            l.label = Tid(l.ctx) \o <<" - ">> \o l.s[1].s \o <<"]=>">>

\* Both lone-string call sites have written their ENTER line: the literal of
\* the anonymous function and the one holding $FN and %d.
C13_Witness ==
    /\ \E l \in EnterLines : l.s = SiteInner.s /\ l.ctx = 1
    /\ \E l \in EnterLines : l.s = SiteTokens.s /\ l.ctx = 2
                               /\ l.label = <<"[tid:", "2", " - ", "$FN", " ", "%d", "]=>">>

----------------------------------------------------------------------------
(* Properties of the order of the steps inside enter and exit.             *)

\* Line i of goroutine c is the ENTER line of the call whose EXIT line is l.
EnterLineOf(c, i, l) ==
    /\ sink[c][i].kind = "ENTER"
    /\ sink[c][i].call = l.call /\ sink[c][i].owner = l.owner

\* C15: on a goroutine whose exits all closed its own latest open enter, the
\* EXIT line of a call carries the depth and the indent of its ENTER line,
\* which are those of the depth before the enter's increment; the depth is
\* not yet incremented while enter builds and writes its line, it is
\* incremented when enter has returned, and it is already decremented when
\* exit builds and writes its line.
C15_ExitMatchesEnter ==
    \A c \in Gids :
        (Nesting /\ lifo[c]) =>
            /\ pc[c] \in {"e_store", "e_spacify", "e_print", "e_inc"} =>
                   StoredDepth(c) = frame[c].nopen
            /\ pc[c] = "idle" => StoredDepth(c) = Len(open[c])
            /\ PastDecrement(c) =>
                   StoredDepth(c) = Len(open[c]) /\ frame[c].nopen = Len(open[c]) + 1
            /\ \A i \in 1..Len(sink[c]) :
                   sink[c][i].kind = "EXIT" =>
                       \E j \in 1..(i - 1) :
                           /\ EnterLineOf(c, j, sink[c][i])
                           /\ sink[c][i].depth = sink[c][j].depth
                           /\ sink[c][i].spaces = sink[c][j].spaces
                           /\ Indent(sink[c][j].depth, sink[c][j].spaces)
                                  = IndentFor(sink[c][j].nopen)

\* A goroutine has closed a nested call and then the call around it, while
\* the other goroutine traced: its lines carry the depths 0, 1, 1, 0.
C15_Witness ==
    /\ Nesting /\ lifo[1] /\ pc[1] = "idle" /\ open[1] = <<>>
    /\ Len(sink[1]) = 4 /\ sink[2] # <<>>
    /\ Kinds(1) = <<"ENTER", "ENTER", "EXIT", "EXIT">>
    /\ [i \in 1..4 |-> sink[1][i].nopen] = <<0, 1, 2, 1>>
    /\ ~tracers[1].options.DisableDepthValue => Depths(1) = <<0, 1, 1, 0>>

\* The ENTER line of the enter call goroutine c is making is in the sink.
EnterLineWritten(c) ==
    \E i \in 1..Len(sink[c]) : EnterLineOf(c, i, [call |-> frame[c].m.call, owner |-> c])

\* The timing map holds the start instant of the enter call goroutine c is
\* making, under the label the call built.
StartStored(c) ==
    /\ frame[c].m.start # ZeroTime
    /\ frame[c].m.label \in DOMAIN entryTime.t
    /\ entryTime.t[frame[c].m.label] = frame[c].m.start

\* C16: with instrumentation enabled, inside one enter call the label is
\* built first, then the start instant is stored under it, then the ENTER
\* line is written and only then the depth is incremented: every ENTER line
\* in the sink belongs to a call whose start instant was stored before.
C16_EnterOrder ==
    Instrumented =>
        \A c \in Gids :
            /\ pc[c] \in {"e_store", "e_spacify", "e_print", "e_inc"} =>
                   /\ frame[c].fname = frame[c].m.label /\ frame[c].fname # <<>>
                   /\ (Nesting /\ lifo[c]) => StoredDepth(c) = frame[c].nopen
            /\ pc[c] = "e_store" => frame[c].m.start = ZeroTime /\ ~EnterLineWritten(c)
            /\ pc[c] \in {"e_spacify", "e_print"} => StartStored(c) /\ ~EnterLineWritten(c)
            /\ pc[c] = "e_inc" =>
                   /\ StartStored(c)
                   /\ sink[c] # <<>>
                   /\ EnterLineOf(c, Len(sink[c]), [call |-> frame[c].m.call, owner |-> c])
            /\ \A i \in 1..Len(sink[c]) :
                   sink[c][i].kind = "ENTER" =>
                       sink[c][i].start # ZeroTime /\ sink[c][i].start <= now

\* One goroutine has written its ENTER line and is about to increment its
\* depth while the other is about to store its start instant.
C16_Witness ==
    /\ Instrumented
    /\ pc[1] = "e_inc" /\ sink[1][Len(sink[1])].kind = "ENTER"
    /\ sink[1][Len(sink[1])].start = Epoch + 1
    /\ pc[2] = "e_store"

----------------------------------------------------------------------------
(* Properties of a tracer built with DisableNesting.                       *)

\* Tracer t is built, traces, and has nesting disabled.
Flat(t) == tracers[t].built /\ ~tracers[t].noop /\ tracers[t].options.DisableNesting

\* The step is New building tracer t with nesting disabled, or a goroutine
\* making or continuing a call of a closure of such a tracer t.
FlatStep(t) ==
    /\ tracers'[t].built /\ ~tracers'[t].noop /\ tracers'[t].options.DisableNesting
    /\ TracerStep(t)

\* What holds in every state of a tracer with nesting disabled: the depth
\* map is still nil if no other tracer was built, its
\* SpacesPerIndent is 0, no call of it is at a step of _incrementDepth or
\* _decrementDepth, the indent it has built is empty, and every line it wrote
\* is an ENTER or EXIT line with no depth prefix and no spaces.
FlatState ==
    /\ (\A t \in TracerIds : tracers[t].built => Flat(t)) => currentDepth = NilDepth
    /\ \A t \in TracerIds :
        Flat(t) =>
            /\ tracers[t].options.SpacesPerIndent = 0
            /\ \A c \in Gids :
                   /\ frame[c].tr = t =>
                          /\ pc[c] \notin {"e_inc", "x_dec", "x_chk"}
                          /\ frame[c].sp = NoIndent
                   /\ \A i \in 1..Len(sink[c]) :
                          sink[c][i].tr = t =>
                              /\ sink[c][i].kind \in {"ENTER", "EXIT"}
                              /\ sink[c][i].depth = <<>>
                              /\ sink[c][i].spaces = 0

\* C17: for a tracer built with DisableNesting, SpacesPerIndent is forced to
\* 0, neither New building it nor any step of its enter and exit changes the
\* depth map or takes its lock, no underflow warning is written, and every
\* line carries an empty indent and no depth prefix, whatever
\* DisableDepthValue is.
C17_NestingDisabled ==
    /\ [] FlatState
    /\ [][\A t \in TracerIds : FlatStep(t) => currentDepth' = currentDepth]_vars

\* While goroutine 1 has a call of the nesting tracer open at depth 1, a
\* tracer with nesting disabled that was asked for the depth value and for 3
\* spaces was built, and goroutine 1 has entered and left with it and then
\* called its exit once more.
C17_Witness ==
    /\ Flat(2) /\ ~tracers[2].options.DisableDepthValue
    /\ ~Flat(1) /\ StoredDepth(1) = 1 /\ Len(open[1]) = 1 /\ open[1][1].tr = 1
    /\ pc[1] = "idle" /\ Len(sink[1]) = 4
    /\ Kinds(1) = <<"ENTER", "ENTER", "EXIT", "EXIT">>
    /\ [i \in 1..4 |-> sink[1][i].tr] = <<1, 2, 2, 2>>

----------------------------------------------------------------------------
(* Properties of an exit called on another goroutine than its enter.       *)

\* Line l is the EXIT line of an exit called on another goroutine than the
\* one that called its enter.
ForeignExit(l) == l.kind = "EXIT" /\ l.owner # 0 /\ l.owner # l.ctx

\* C18: exit acts on the goroutine that calls it.  Between calls the stored
\* depth of a goroutine is the number of enter calls it made less the number
\* of exit calls it made (clamped at 0), whoever made the matching enter
\* calls: an exit of goroutine A's enter called on goroutine B lowers B's
\* depth and leaves A's.  Its EXIT line carries B's tid and B's depth after
\* the decrement, after a warning line exactly when B's depth was 0.
C18_ExitActsOnCaller ==
    Nesting =>
        \A b \in Gids :
            /\ pc[b] = "idle" => StoredDepth(b) = net[b]
            /\ \A i \in 1..Len(sink[b]) :
                   sink[b][i].kind = "EXIT" =>
                       /\ sink[b][i].ctx = b
                       /\ SubSeq(sink[b][i].label, 1, 3) = Tid(b) \o <<"]=>">>
                       /\ WarnedBefore(b, i) = (sink[b][i].before = 0)
                       /\ Indent(sink[b][i].depth, sink[b][i].spaces)
                              = IndentFor(NetAfterExit(sink[b][i].before))

\* Goroutine 2, with no call open, has called the exit of goroutine 1's
\* only enter: a warning and the EXIT line with tid 2 are written, the depth
\* of goroutine 2 is 0 and goroutine 1 keeps depth 1 with no call open.
C18_Witness ==
    /\ Nesting /\ pc[1] = "idle" /\ pc[2] = "idle"
    /\ open[1] = <<>> /\ StoredDepth(1) = 1 /\ calls[1] = 1
    /\ StoredDepth(2) = 0 /\ calls[2] = 0
    /\ Kinds(2) = <<"WARN", "EXIT">>
    /\ ForeignExit(sink[2][2]) /\ sink[2][2].label[2] = "2"

----------------------------------------------------------------------------
(* Properties of the locking.                                              *)

\* The step replaces or mutates the depth map / the timing map.
DepthMapWritten ==
    currentDepth'.d # currentDepth.d \/ currentDepth'.isnil # currentDepth.isnil
TimingMapWritten ==
    entryTime'.t # entryTime.t \/ entryTime'.isnil # entryTime.isnil

\* The step is goroutine c moving on from position p.
MovesFrom(c, p) == pc[c] = p /\ pc'[c] # pc[c]

\* The step is made inside a section that holds the write lock of the depth
\* map (_incrementDepth, _decrementDepth) / of the timing map (the store of
\* _enter, the delete of _exit).
InDepthWriteSection ==
    \E c \in Gids :
        \/ MovesFrom(c, "e_inc") /\ CanLock(currentDepth)
        \/ MovesFrom(c, "x_dec") /\ CanLock(currentDepth)
        \/ MovesFrom(c, "x_chk") /\ currentDepth.w = c
InTimingWriteSection ==
    \E c \in Gids :
        (MovesFrom(c, "e_store") \/ MovesFrom(c, "x_delete")) /\ CanLock(entryTime)

\* C14: every mutation or replacement of the depth map or of the timing map,
\* those of New included, is made by a step that holds the write lock of
\* that map.
C14_MapAccessLocked ==
    [][/\ DepthMapWritten => InDepthWriteSection
       /\ TimingMapWritten => InTimingWriteSection]_vars

\* The positions at which a goroutine is about to take a lock.
LockWaits == {"e_store", "e_spacify", "e_inc", "x_dec", "x_since", "x_spacify", "x_delete"}

\* A goroutine about to take a lock holds none, and the only position at
\* which a lock is held from one step to the next is the test inside
\* _decrementDepth, whose next step takes no lock.
LockDiscipline ==
    /\ entryTime.w = 0 /\ entryTime.r = {} /\ currentDepth.r = {}
    /\ \A c \in Gids :
           /\ currentDepth.w = c => pc[c] = "x_chk"
           /\ pc[c] = "x_chk" => currentDepth.w = c
           /\ pc[c] \in LockWaits => currentDepth.w # c

\* C19: with nesting and instrumentation enabled and the goroutines
\* scheduled fairly, every call of enter and of exit returns, under every
\* interleaving (every goroutine is outside enter and exit again and again,
\* so no call it makes lasts forever); no goroutine waits for a lock while it
\* holds one.
C19_EveryCallReturns ==
    /\ [] LockDiscipline
    /\ \A c \in Gids : []<>(pc[c] = "idle")

\* Goroutine 1 waits for the write lock of the depth map, which goroutine 2
\* holds inside _decrementDepth.
C19_Witness ==
    /\ Nesting /\ Instrumented
    /\ pc[1] = "x_dec" /\ pc[2] = "x_chk" /\ currentDepth.w = 2

====
